---- MODULE Spec2Model ----
(***************************************************************************)
(* Model of the classification-and-review subsystem of auto-commit:        *)
(*   - ConfigurationManager (src/src/config_manager.py): layered           *)
(*     .gitinclude / .gitignore rule files, the parse cache and            *)
(*     get_file_action / add_pattern / clear_cache;                        *)
(*   - ReviewQueue (src/src/review_queue.py): the SQLite table             *)
(*     review_items and the operations on it, called by several threads.   *)
(*   - CommitWorker / CommitWorkerPool (src/src/commit_worker.py):         *)
(*     process_event, the run loop of each worker and the pool's           *)
(*     start / stop around a shared event queue.                           *)
(*                                                                         *)
(* Strings are sequences of one-character strings, so that strip, split    *)
(* and glob matching are computed character by character.  A path is the   *)
(* sequence of its components below the filesystem root (pathlib's parts). *)
(***************************************************************************)
EXTENDS Integers, Sequences, FiniteSets, TLC

VARIABLES
    files,      \* rule files on disk: a dictionary, config path -> text
    cache,      \* ConfigurationManager._config_cache: config path -> patterns
    appends,    \* how many lines add_pattern has appended to rule files
    ret,        \* the last ConfigurationManager call and what it returned
    rows,       \* committed rows of review_items: a dictionary, id -> row
    seq,        \* sqlite_sequence of review_items (AUTOINCREMENT high-water mark)
    writer,     \* the thread whose connection holds the database write lock
    txn,        \* per thread: the statement executed and not yet committed
    result,     \* the last completed ReviewQueue call and what it returned
    added,      \* ids returned by completed add_item calls, in completion order
    event_queue,\* the shared queue.Queue: its items and unfinished_tasks
    processing, \* per worker inside process_event: the path of its event
    handled,    \* the last process_event call and what it returned
    commits,    \* the paths handed to the git_repo collaborator, in order
    workers,    \* CommitWorkerPool.workers: running flag, position of run()
    pool,       \* the position of the caller of CommitWorkerPool.start / stop
    storage,    \* the ReviewQueue object and whether its database can be opened
    read_errors,\* rule files whose read fails: config path -> lines read before
    calls       \* per thread inside _parse_config_file or add_pattern: its locals

rvars == <<files, cache, appends, ret>>
svars == <<rows, seq, writer, txn, result, added>>
wvars == <<event_queue, processing, handled, commits, workers, pool>>
evars == <<storage, read_errors, calls>>
vars  == <<files, cache, appends, ret, rows, seq, writer, txn, result, added,
           event_queue, processing, handled, commits, workers, pool,
           storage, read_errors, calls>>

-----------------------------------------------------------------------------
(* Characters and strings                                                  *)

NL == "\n"
Whitespace == {" ", NL}

RECURSIVE LStrip(_)
LStrip(s) ==
    IF s # <<>> /\ Head(s) \in Whitespace THEN LStrip(Tail(s)) ELSE s

RECURSIVE RStripWs(_)
RStripWs(s) ==
    IF s # <<>> /\ s[Len(s)] \in Whitespace
    THEN RStripWs(SubSeq(s, 1, Len(s) - 1))
    ELSE s

\* str.strip()
Strip(s) == RStripWs(LStrip(s))

\* str.rstrip('/')
RECURSIVE RStripSlash(_)
RStripSlash(s) ==
    IF s # <<>> /\ s[Len(s)] = "/"
    THEN RStripSlash(SubSeq(s, 1, Len(s) - 1))
    ELSE s

\* str.startswith
StartsWith(s, prefix) ==
    /\ Len(prefix) <= Len(s)
    /\ SubSeq(s, 1, Len(prefix)) = prefix

\* the lines of a text file, split at newline characters
RECURSIVE SplitLines(_, _)
SplitLines(text, cur) ==
    IF text = <<>>
    THEN IF cur = <<>> THEN <<>> ELSE <<cur>>
    ELSE IF Head(text) = NL
         THEN <<cur \o <<NL>>>> \o SplitLines(Tail(text), <<>>)
         ELSE SplitLines(Tail(text), cur \o <<Head(text)>>)

\* a glob whose '*' and '?' stop at '/', as in a shell or a .gitignore
RECURSIVE FnmatchStarStopsAtSlash(_, _)
FnmatchStarStopsAtSlash(name, pat) ==
    IF pat = <<>> THEN name = <<>>
    ELSE IF Head(pat) = "*"
         THEN \/ FnmatchStarStopsAtSlash(name, Tail(pat))
              \/ /\ name # <<>>
                 /\ Head(name) # "/"
                 /\ FnmatchStarStopsAtSlash(Tail(name), pat)
    ELSE IF Head(pat) = "?"
         THEN /\ name # <<>>
              /\ Head(name) # "/"
              /\ FnmatchStarStopsAtSlash(Tail(name), Tail(pat))
    ELSE /\ name # <<>>
         /\ Head(name) = Head(pat)
         /\ FnmatchStarStopsAtSlash(Tail(name), Tail(pat))

\* fnmatch.fnmatch on POSIX for patterns without bracket expressions:
\* '*' matches any run of characters ('/' included), '?' any one character
RECURSIVE Fnmatch(_, _)
Fnmatch(name, pat) ==
    IF pat = <<>> THEN name = <<>>
    ELSE IF Head(pat) = "*"
         THEN \/ Fnmatch(name, Tail(pat))
              \/ name # <<>> /\ Fnmatch(Tail(name), pat)
    ELSE IF Head(pat) = "?"
         THEN name # <<>> /\ Fnmatch(Tail(name), Tail(pat))
    ELSE name # <<>> /\ Head(name) = Head(pat) /\ Fnmatch(Tail(name), Tail(pat))

Range(s) == {s[i] : i \in 1..Len(s)}

RECURSIVE Reversed(_)
Reversed(s) == IF s = <<>> THEN <<>> ELSE Reversed(Tail(s)) \o <<Head(s)>>

-----------------------------------------------------------------------------
(* Paths and the directory tree                                            *)

NameW == <<"w">>
NameS == <<"s">>
NameO == <<"o">>
FileAP == <<"a", ".", "p">>
FileBL == <<"b", ".", "l">>
FileCT == <<"c", ".", "t">>

FsRoot == <<>>
DirW   == <<NameW>>
DirWS  == <<NameW, NameS>>
DirO   == <<NameO>>

\* ConfigurationManager.watch_directory
WatchDirectory == DirW

Directories == {FsRoot, DirW, DirWS, DirO}

\* regular files that exist; <<w, s, c.t>> is the path of a deleted file
RegularFiles == {<<NameW, FileAP>>, <<NameW, FileBL>>,
                 <<NameW, NameS, FileAP>>, <<NameW, NameS, FileBL>>,
                 <<NameO, FileAP>>}

\* the paths handed to get_file_action
EventPaths == RegularFiles \cup {<<NameW, NameS, FileCT>>, DirWS, FsRoot}

IsFile(p) == p \in RegularFiles
IsDir(p)  == p \in Directories

\* Path.parent
Parent(p) == IF p = <<>> THEN p ELSE SubSeq(p, 1, Len(p) - 1)

\* Path.relative_to succeeds
IsRelativeTo(p, base) == StartsWith(p, base)

\* str(p.relative_to(base)): the components joined by '/', "." when none is left
RECURSIVE JoinParts(_)
JoinParts(parts) ==
    IF parts = <<>> THEN <<>>
    ELSE IF Len(parts) = 1 THEN parts[1]
    ELSE parts[1] \o <<"/">> \o JoinParts(Tail(parts))

RelPathStr(p, base) ==
    IF Len(p) = Len(base) THEN <<".">>
    ELSE JoinParts(SubSeq(p, Len(base) + 1, Len(p)))

-----------------------------------------------------------------------------
(* Rule files                                                              *)

Kinds == {"include", "ignore"}

\* the path of the rule file of a kind in a directory: dir / ".gitinclude" etc.
ConfigPath(dir, kind) == <<dir, kind>>
ConfigDir(slot) == slot[1]
ConfigType(slot) == slot[2]

PatStarP == <<"*", ".", "p">>
PatStarL == <<"*", ".", "l">>
PatDirS  == <<"s", "/">>
PatAStar == <<"a", ".", "*">>
PatStar  == <<"*">>

Line(p) == p \o <<NL>>

\* the rule files that can exist before the program starts, with the contents
\* each can have (a comment and a blank line, a line without its newline,
\* patterns of files above and beside the watched directory)
InitialContents(slot) ==
    IF slot = <<DirW, "include">>
    THEN {Line(PatStarP), <<"#", "c", NL, NL>> \o Line(PatDirS)}
    ELSE IF slot = <<DirW, "ignore">>
    THEN {Line(PatStarL), <<" ">> \o PatDirS}
    ELSE IF slot = <<DirWS, "include">>
    THEN {Line(PatStar)}
    ELSE IF slot = <<DirWS, "ignore">>
    THEN {Line(PatAStar)}
    ELSE IF slot = <<FsRoot, "include">>
    THEN {Line(PatStar)}
    ELSE {}

EmptyMap == [s \in {} |-> <<>>]

\* the dictionary d with d[k] = v
Put(d, k, v) == [x \in DOMAIN d \cup {k} |-> IF x = k THEN v ELSE d[x]]

\* the dictionary d without key k
Del(d, k) == [x \in DOMAIN d \ {k} |-> d[x]]

RuleSlots == <<ConfigPath(DirW, "include"), ConfigPath(DirW, "ignore"),
               ConfigPath(DirWS, "include"), ConfigPath(DirWS, "ignore"),
               ConfigPath(FsRoot, "include")>>

\* every choice of rule files: each slot absent or with one of its contents
RECURSIVE FileSystems(_)
FileSystems(slots) ==
    IF slots = <<>> THEN {EmptyMap}
    ELSE LET rest == FileSystems(Tail(slots))
         IN  rest \cup {Put(f, Head(slots), c) :
                           f \in rest, c \in InitialContents(Head(slots))}

InitialFiles == FileSystems(RuleSlots)

\* a ReviewQueue whose constructor has returned, on a database that opens
ReadyStorage == [store |-> "ready", available |-> TRUE]

-----------------------------------------------------------------------------
(* ConfigurationManager                                                    *)

\* the while loop of _find_config_files, from current_dir up to the watch
\* directory: per directory .gitinclude is appended before .gitignore
RECURSIVE WalkUpStopsBelowRoot(_, _)
WalkUpStopsBelowRoot(current_dir, fs) ==
    LET inc  == ConfigPath(current_dir, "include")
        ign  == ConfigPath(current_dir, "ignore")
        here == (IF inc \in DOMAIN fs THEN <<inc>> ELSE <<>>)
                \o (IF ign \in DOMAIN fs THEN <<ign>> ELSE <<>>)
    IN  IF current_dir = WatchDirectory THEN <<>>
        ELSE IF Parent(current_dir) = current_dir THEN here
        ELSE here \o WalkUpStopsBelowRoot(Parent(current_dir), fs)

RECURSIVE WalkUp(_, _)
WalkUp(current_dir, fs) ==
    LET inc  == ConfigPath(current_dir, "include")
        ign  == ConfigPath(current_dir, "ignore")
        here == (IF inc \in DOMAIN fs THEN <<inc>> ELSE <<>>)
                \o (IF ign \in DOMAIN fs THEN <<ign>> ELSE <<>>)
    IN  IF current_dir = WatchDirectory THEN here
        ELSE IF Parent(current_dir) = current_dir THEN here
        ELSE here \o WalkUp(Parent(current_dir), fs)

FindConfigFilesUnscoped(file_path, fs) ==
    LET current_dir == IF IsFile(file_path) THEN Parent(file_path) ELSE file_path
    IN  Reversed(WalkUp(current_dir, fs))

FindConfigFiles(file_path, fs) ==
    LET current_dir == IF IsFile(file_path) THEN Parent(file_path) ELSE file_path
    IN  IF ~IsRelativeTo(current_dir, WatchDirectory) THEN <<>>
        ELSE Reversed(WalkUp(current_dir, fs))

\* the lines of a rule file that are patterns: stripped, not empty, no comment
RECURSIVE KeepPatterns(_)
KeepPatterns(lines) ==
    IF lines = <<>> THEN <<>>
    ELSE LET line == Strip(Head(lines))
         IN  IF line # <<>> /\ Head(line) # "#"
             THEN <<line>> \o KeepPatterns(Tail(lines))
             ELSE KeepPatterns(Tail(lines))

ReadPatterns(text) == KeepPatterns(SplitLines(text, <<>>))

\* the lines the loop of _parse_config_file gets from the file: all of them,
\* or, when the read raises, those it got before the error
LinesRead(config_path, fs) ==
    LET lines == SplitLines(fs[config_path], <<>>)
    IN  IF config_path \in DOMAIN read_errors
        THEN SubSeq(lines, 1, IF read_errors[config_path] < Len(lines)
                              THEN read_errors[config_path] ELSE Len(lines))
        ELSE lines

\* a parse that reads the file on every call
ParseConfigFileUncached(config_path, fs, c) ==
    KeepPatterns(LinesRead(config_path, fs))

\* what _parse_config_file returns: the cache entry when there is one, else
\* the patterns collected from the lines read
ParseConfigFile(config_path, fs, c) ==
    IF config_path \in DOMAIN c THEN c[config_path]
    ELSE KeepPatterns(LinesRead(config_path, fs))

\* the cache after _parse_config_file: set only when the read did not raise
CacheAfterParse(config_path, fs, c) ==
    IF config_path \in DOMAIN c \/ config_path \in DOMAIN read_errors THEN c
    ELSE Put(c, config_path, ReadPatterns(fs[config_path]))

MatchesPattern(file_path, pattern, config_dir) ==
    IF ~IsRelativeTo(file_path, config_dir) THEN FALSE
    ELSE LET rel_path_str == RelPathStr(file_path, config_dir)
         IN  IF pattern # <<>> /\ pattern[Len(pattern)] = "/"
             THEN LET dir_pattern == RStripSlash(pattern)
                  IN  \/ StartsWith(rel_path_str, dir_pattern \o <<"/">>)
                      \/ rel_path_str = dir_pattern
             ELSE Fnmatch(rel_path_str, pattern)

\* the (config file, pattern) pairs of one kind that match, as get_file_action
\* accumulates them over the config files found
Matches(file_path, config_files, fs, c, kind) ==
    UNION {{<<config_files[i], j>> :
              j \in {k \in 1..Len(ParseConfigFile(config_files[i], fs, c)) :
                        MatchesPattern(file_path,
                                       ParseConfigFile(config_files[i], fs, c)[k],
                                       ConfigDir(config_files[i]))}} :
           i \in {n \in 1..Len(config_files) : ConfigType(config_files[n]) = kind}}

DecideIgnoreWins(include_matches, ignore_matches) ==
    IF ignore_matches # {} THEN "ignore"
    ELSE IF include_matches # {} THEN "include"
    ELSE "review"

DecideDefaultInclude(include_matches, ignore_matches) ==
    IF include_matches # {} /\ ignore_matches # {} THEN "review"
    ELSE IF ignore_matches # {} THEN "ignore"
    ELSE "include"

\* the precedence rules at the end of get_file_action
Decide(include_matches, ignore_matches) ==
    IF include_matches # {} /\ ignore_matches # {} THEN "review"
    ELSE IF ignore_matches # {} THEN "ignore"
    ELSE IF include_matches # {} THEN "include"
    ELSE "review"

GetFileAction(file_path, fs, c) ==
    LET config_files == FindConfigFiles(file_path, fs)
    IN  IF config_files = <<>> THEN "review"
        ELSE Decide(Matches(file_path, config_files, fs, c, "include"),
                    Matches(file_path, config_files, fs, c, "ignore"))

\* the cache after get_file_action: every config file found has been parsed
RECURSIVE CacheAfterAll(_, _, _)
CacheAfterAll(config_files, fs, c) ==
    IF config_files = <<>> THEN c
    ELSE CacheAfterAll(Tail(config_files), fs,
                       CacheAfterParse(Head(config_files), fs, c))

NoCall == [op |-> "none", path |-> <<>>, action |-> "none", scope |-> "none",
           val |-> "none"]

\* get_file_action(file_path)
Classify(file_path) ==
    /\ ret' = [op |-> "get_file_action", path |-> file_path,
               action |-> "none", scope |-> "none",
               val |-> GetFileAction(file_path, files, cache)]
    /\ cache' = CacheAfterAll(FindConfigFiles(file_path, files), files, cache)
    /\ UNCHANGED <<files, appends, svars, wvars, evars>>

\* clear_cache()
ClearCache ==
    /\ cache' = EmptyMap
    /\ ret' = [op |-> "clear_cache", path |-> <<>>, action |-> "none",
               scope |-> "none", val |-> "none"]
    /\ UNCHANGED <<files, appends, svars, wvars, evars>>

\* get_stats() of the ConfigurationManager
ConfigStats(c) ==
    [cached_config_files |-> Cardinality(DOMAIN c), cache_files |-> DOMAIN c]

\* a rule file is written by something other than add_pattern (an editor, git)
ExternalWrite(config_path, text) ==
    /\ files' = Put(files, config_path, text)
    /\ UNCHANGED <<cache, appends, ret, svars, wvars, evars>>

\* bound of the model: the lines add_pattern appends to rule files
MaxAppends == 1

\* project_path = "" or None: the argument is falsy
NoProjectPath == <<<<>>>>

\* the directory add_pattern writes to
PatternDir(scope, project_path) ==
    IF scope = "global" THEN WatchDirectory
    ELSE IF project_path # NoProjectPath THEN Parent(project_path)
    ELSE WatchDirectory

\* an add_pattern that writes a rule file for any action, review included
AddPatternAnyAction(pattern, action, scope, project_path) ==
    LET config_file == ConfigPath(PatternDir(scope, project_path), action)
        known == /\ config_file \in DOMAIN files
                 /\ pattern \in Range(ParseConfigFile(config_file, files, cache))
        old == IF config_file \in DOMAIN files THEN files[config_file] ELSE <<>>
    IN  /\ IF known
           THEN /\ ret' = [op |-> "add_pattern", path |-> project_path,
                           action |-> action, scope |-> scope,
                           val |-> "true"]
                /\ cache' = CacheAfterParse(config_file, files, cache)
                /\ UNCHANGED <<files, appends, evars>>
           ELSE /\ appends < MaxAppends
                /\ files' = Put(files, config_file, old \o Line(pattern))
                /\ cache' = Del(cache, config_file)
                /\ appends' = appends + 1
                /\ ret' = [op |-> "add_pattern", path |-> project_path,
                           action |-> action, scope |-> scope,
                           val |-> "true"]
        /\ UNCHANGED <<svars, wvars, evars>>

\* add_pattern(pattern, action, scope, project_path); every directory it is
\* called on exists, so mkdir changes nothing
AddPattern(pattern, action, scope, project_path) ==
    LET config_file == ConfigPath(PatternDir(scope, project_path), action)
        known == /\ config_file \in DOMAIN files
                 /\ pattern \in Range(ParseConfigFile(config_file, files, cache))
        old == IF config_file \in DOMAIN files THEN files[config_file] ELSE <<>>
    IN  /\ IF action \notin Kinds
           THEN /\ ret' = [op |-> "add_pattern", path |-> project_path,
                           action |-> action, scope |-> scope,
                           val |-> "false"]
                /\ UNCHANGED <<files, cache, appends, evars>>
           ELSE IF known
           THEN /\ ret' = [op |-> "add_pattern", path |-> project_path,
                           action |-> action, scope |-> scope,
                           val |-> "true"]
                /\ cache' = CacheAfterParse(config_file, files, cache)
                /\ UNCHANGED <<files, appends, evars>>
           ELSE /\ appends < MaxAppends
                /\ files' = Put(files, config_file, old \o Line(pattern))
                /\ cache' = Del(cache, config_file)
                /\ appends' = appends + 1
                /\ ret' = [op |-> "add_pattern", path |-> project_path,
                           action |-> action, scope |-> scope,
                           val |-> "true"]
        /\ UNCHANGED <<svars, wvars, evars>>

-----------------------------------------------------------------------------
(* ReviewQueue                                                             *)

\* bound of the model: the largest id the table hands out
MaxId == 2

Threads == {"w1", "w2", "ui"}
NoThread == "none"

\* file_path values of add_item
StorePaths == {"/w/a.p", "/w/s/b.l"}

\* status values handed to update_item_status
StatusArgs == {"pending", "approved", "include", "invalid"}

\* the statuses clear_completed deletes
CompletedStatuses == {"approved", "rejected"}

NoTxn == [op |-> "none", path |-> "", id |-> 0, status |-> "",
          rows |-> EmptyMap, seq |-> 0, n |-> 0, ok |-> FALSE]

NoResult == [thread |-> NoThread, op |-> "none", path |-> "", id |-> 0,
             status |-> "", n |-> 0, ok |-> FALSE, raised |-> FALSE]

\* every operation connects whether or not the constructor returned
DatabaseOpensUnconstructed == storage.available

\* sqlite3.connect(self.db_path) of an operation: self is the object the
\* constructor returned, and the database file can be opened and written
DatabaseOpens == storage.store = "ready" /\ storage.available

CanWriteUnlocked(t) == TRUE

\* sqlite3.connect + a data-changing statement: the statement runs once the
\* connection gets the database write lock, which it keeps until its commit
CanWrite(t) == writer = NoThread

\* INTEGER PRIMARY KEY without AUTOINCREMENT: one more than the largest id in
\* the table
NewRowIdOfTable(table, last) ==
    IF DOMAIN table = {} THEN 1
    ELSE (CHOOSE i \in DOMAIN table : \A j \in DOMAIN table : j <= i) + 1

\* INTEGER PRIMARY KEY AUTOINCREMENT: one more than the largest id ever used
NewRowId(table, last) == last + 1

\* SELECT ... WHERE status = 'pending' of get_pending_items: the ids selected
GetPendingItems(table) == {i \in DOMAIN table : table[i].status = "pending"}

\* insert-or-fetch: a pending row of the same path is returned, not duplicated
AddItemExecOrFetch(t, file_path) ==
    /\ txn[t].op = "none"
    /\ DatabaseOpens
    /\ CanWrite(t)
    /\ seq < MaxId
    /\ LET same == {i \in GetPendingItems(rows) : rows[i].file_path = file_path}
           item_id == IF same = {} THEN NewRowId(rows, seq)
                      ELSE CHOOSE i \in same : TRUE
       IN  txn' = [txn EXCEPT ![t] =
                     [op |-> "add_item", path |-> file_path, id |-> item_id,
                      status |-> "pending",
                      rows |-> Put(rows, item_id,
                                   [file_path |-> file_path, status |-> "pending"]),
                      seq |-> IF same = {} THEN item_id ELSE seq,
                      n |-> item_id, ok |-> TRUE]]
    /\ writer' = t
    /\ UNCHANGED <<rows, seq, result, added, rvars, wvars, evars>>

\* add_item: the INSERT; status takes the column default 'pending'
AddItemExec(t, file_path) ==
    /\ txn[t].op = "none"
    /\ DatabaseOpens
    /\ CanWrite(t)
    /\ seq < MaxId
    /\ LET item_id == NewRowId(rows, seq)
       IN  txn' = [txn EXCEPT ![t] =
                     [op |-> "add_item", path |-> file_path, id |-> item_id,
                      status |-> "pending",
                      rows |-> Put(rows, item_id,
                                   [file_path |-> file_path, status |-> "pending"]),
                      seq |-> item_id, n |-> item_id, ok |-> TRUE]]
    /\ writer' = t
    /\ UNCHANGED <<rows, seq, result, added, rvars, wvars, evars>>

\* an UPDATE that inserts the row when the id is absent
UpdatedRowsOrInserted(table, item_id, status) ==
    IF item_id \in DOMAIN table
    THEN [table EXCEPT ![item_id].status = status]
    ELSE Put(table, item_id, [file_path |-> "", status |-> status])

\* the table after UPDATE review_items SET status = ? WHERE id = ?
UpdatedRows(table, item_id, status) ==
    IF item_id \in DOMAIN table
    THEN [table EXCEPT ![item_id].status = status]
    ELSE table

\* update_item_status: the UPDATE; True when cursor.rowcount > 0
UpdateItemStatusExec(t, item_id, status) ==
    /\ txn[t].op = "none"
    /\ DatabaseOpens
    /\ CanWrite(t)
    /\ LET rowcount == IF item_id \in DOMAIN rows THEN 1 ELSE 0
       IN  txn' = [txn EXCEPT ![t] =
                     [op |-> "update_item_status", path |-> "", id |-> item_id,
                      status |-> status,
                      rows |-> UpdatedRows(rows, item_id, status),
                      seq |-> seq, n |-> rowcount, ok |-> rowcount > 0]]
    /\ writer' = t
    /\ UNCHANGED <<rows, seq, result, added, rvars, wvars, evars>>

\* SELECT ... WHERE id = ? of get_item: the row fetched, none when absent
GetItem(table, item_id) ==
    IF item_id \in DOMAIN table THEN {table[item_id]} ELSE {}

\* a DELETE restricted to pending rows
RemoveItemExecPendingOnly(t, item_id) ==
    /\ txn[t].op = "none"
    /\ DatabaseOpens
    /\ CanWrite(t)
    /\ LET rowcount == IF item_id \in GetPendingItems(rows) THEN 1 ELSE 0
       IN  txn' = [txn EXCEPT ![t] =
                     [op |-> "remove_item", path |-> "", id |-> item_id,
                      status |-> "",
                      rows |-> IF rowcount > 0 THEN Del(rows, item_id) ELSE rows,
                      seq |-> seq, n |-> rowcount, ok |-> rowcount > 0]]
    /\ writer' = t
    /\ UNCHANGED <<rows, seq, result, added, rvars, wvars, evars>>

\* remove_item: DELETE FROM review_items WHERE id = ?
RemoveItemExec(t, item_id) ==
    /\ txn[t].op = "none"
    /\ DatabaseOpens
    /\ CanWrite(t)
    /\ LET rowcount == IF item_id \in DOMAIN rows THEN 1 ELSE 0
       IN  txn' = [txn EXCEPT ![t] =
                     [op |-> "remove_item", path |-> "", id |-> item_id,
                      status |-> "",
                      rows |-> Del(rows, item_id),
                      seq |-> seq, n |-> rowcount, ok |-> rowcount > 0]]
    /\ writer' = t
    /\ UNCHANGED <<rows, seq, result, added, rvars, wvars, evars>>

\* clear_completed: DELETE ... WHERE status IN ('approved', 'rejected')
ClearCompletedExec(t) ==
    /\ txn[t].op = "none"
    /\ DatabaseOpens
    /\ CanWrite(t)
    /\ LET gone == {i \in DOMAIN rows : rows[i].status \in CompletedStatuses}
       IN  txn' = [txn EXCEPT ![t] =
                     [op |-> "clear_completed", path |-> "", id |-> 0,
                      status |-> "",
                      rows |-> [i \in DOMAIN rows \ gone |-> rows[i]],
                      seq |-> seq, n |-> Cardinality(gone), ok |-> TRUE]]
    /\ writer' = t
    /\ UNCHANGED <<rows, seq, result, added, rvars, wvars, evars>>

\* get_stats: SELECT status, COUNT(*) ... GROUP BY status; the dictionary
\* starts as {"total": 0}, gets one key per status that has rows, and total
\* is the sum of the counts
GetStats(table) ==
    LET statuses == {table[i].status : i \in DOMAIN table}
        count(status) == Cardinality({i \in DOMAIN table : table[i].status = status})
    IN  [key \in {"total"} \cup statuses |->
            IF key = "total" THEN Cardinality(DOMAIN table) ELSE count(key)]

\* conn.commit() and the return of the call: the statement's effect becomes
\* the table and the write lock is released
Commit(t) ==
    /\ txn[t].op # "none"
    /\ storage.available
    /\ rows' = txn[t].rows
    /\ seq' = txn[t].seq
    /\ writer' = IF writer = t THEN NoThread ELSE writer
    /\ result' = [thread |-> t, op |-> txn[t].op, path |-> txn[t].path,
                  id |-> txn[t].id, status |-> txn[t].status,
                  n |-> txn[t].n, ok |-> txn[t].ok, raised |-> FALSE]
    /\ added' = IF txn[t].op = "add_item" THEN Append(added, txn[t].n) ELSE added
    /\ txn' = [txn EXCEPT ![t] = NoTxn]
    /\ UNCHANGED <<rvars, wvars, evars>>

-----------------------------------------------------------------------------
(* ReviewQueue: construction and storage failures                          *)

\* before ReviewQueue(db_path) is called
NoStorage(available) == [store |-> "none", available |-> available]

\* the database location turns unusable or usable again (the directory is
\* removed or created, the file is made read-only or writable)
StorageChange ==
    /\ storage' = [storage EXCEPT !.available = ~storage.available]
    /\ UNCHANGED <<rvars, svars, wvars, read_errors, calls>>

\* a constructor that logs the error of _init_database and returns
ConstructSwallowsError ==
    /\ storage.store = "none"
    /\ storage' = [storage EXCEPT !.store = "ready"]
    /\ UNCHANGED <<rvars, svars, wvars, read_errors, calls>>

\* ReviewQueue(db_path): _init_database connects and creates the table and
\* the indexes IF NOT EXISTS, which leaves the rows alone; its except clause
\* logs and re-raises, so the caller gets the exception and no object
Construct ==
    /\ storage.store = "none"
    /\ storage' = [storage EXCEPT
                     !.store = IF storage.available THEN "ready" ELSE "raised"]
    /\ UNCHANGED <<rvars, svars, wvars, read_errors, calls>>

\* the operations of the store that run a statement in a try block
StoreOps == {"add_item", "get_pending_items", "update_item_status",
             "get_item", "remove_item", "clear_completed"}

\* the operations whose except clause ends in raise; the others return
\* [], False, None or 0
ExceptReraises == {"add_item"}

\* what the caller gets from the except clause of an operation
FailureResult(t, op) ==
    [thread |-> t, op |-> op, path |-> "", id |-> 0, status |-> "",
     n |-> 0, ok |-> FALSE, raised |-> op \in ExceptReraises]

\* an operation whose sqlite3.connect or statement raises: nothing was
\* written, and the except clause of the operation decides what the caller gets
ConnectFails(t, op) ==
    /\ txn[t].op = "none"
    /\ storage.store = "ready"
    /\ ~storage.available
    /\ result' = FailureResult(t, op)
    /\ UNCHANGED <<rows, seq, writer, txn, added, rvars, wvars, evars>>

\* an operation whose conn.commit() raises: the connection's context manager
\* rolls the statement back, and the except clause decides what the caller gets
CommitFails(t) ==
    /\ txn[t].op # "none"
    /\ ~storage.available
    /\ writer' = IF writer = t THEN NoThread ELSE writer
    /\ result' = FailureResult(t, txn[t].op)
    /\ txn' = [txn EXCEPT ![t] = NoTxn]
    /\ UNCHANGED <<rows, seq, added, rvars, wvars, evars>>

-----------------------------------------------------------------------------
(* CommitWorker.process_event                                              *)

\* num_workers of CommitWorkerPool; worker_id is 0 .. num_workers - 1
NumWorkers == 2
WorkerIds == 0..(NumWorkers - 1)

\* the src_path of the events handed to process_event and put on the queue
WorkerPaths == {<<NameW, FileAP>>, <<NameW, NameS, FileBL>>}

\* queue.Queue(): no item, no unfinished task
EmptyQueue == [queue |-> <<>>, unfinished_tasks |-> 0]

NoHandled == [worker |-> -1, path |-> <<>>, action |-> "none", ok |-> FALSE]

\* the parameters of add_item that have no default
AddItemRequired == {"file_path", "event_type", "reason"}

\* the keyword arguments process_event passes to add_item
AddItemKeywords == {"file_path", "reason"}

\* the call binds its arguments: no TypeError for a missing parameter
CallBinds(required, keywords) == required \subseteq keywords

\* every branch hands the path to the git_repo collaborator
RoutesAlwaysCommit(action) == "git_repo"

\* the collaborator process_event calls in the branch of an action: the
\* review branch calls review_queue.add_item, the ignore branch returns and
\* the include branch only logs
Routes(action) ==
    IF action = "review" THEN "review_queue" ELSE "none"

\* a call of process_event(event) on worker w begins
ProcessEventCall(w, file_path) ==
    /\ w \notin DOMAIN processing
    /\ processing' = Put(processing, w, file_path)
    /\ UNCHANGED <<rvars, svars, event_queue, handled, commits, workers, pool, evars>>

\* the body of process_event: get_file_action, the branch of the action and
\* the return; an exception raised inside is caught and makes it return False
ProcessEventReturn(w) ==
    /\ w \in DOMAIN processing
    /\ LET file_path == processing[w]
           action == GetFileAction(file_path, files, cache)
           route == Routes(action)
           binds == CallBinds(AddItemRequired, AddItemKeywords)
           item_id == NewRowId(rows, seq)
           inserts == route = "review_queue" /\ binds /\ CanWrite(w)
       IN  /\ cache' = CacheAfterAll(FindConfigFiles(file_path, files), files, cache)
           /\ rows' = IF inserts
                      THEN Put(rows, item_id,
                               [file_path |-> file_path, status |-> "pending"])
                      ELSE rows
           /\ seq' = IF inserts THEN item_id ELSE seq
           /\ commits' = IF route = "git_repo"
                         THEN Append(commits, file_path) ELSE commits
           /\ handled' = [worker |-> w, path |-> file_path, action |-> action,
                          ok |-> route = "review_queue" => inserts]
    /\ processing' = Del(processing, w)
    /\ UNCHANGED <<files, appends, ret, writer, txn, result, added,
                   event_queue, workers, pool, evars>>

\* bound of the model: the events put on the queue
MaxEvents == 2

\* event_queue.put(event): the item is queued and counted as unfinished
PutEvent(file_path) ==
    /\ Len(event_queue.queue) < MaxEvents
    /\ event_queue' = [queue |-> Append(event_queue.queue, file_path),
                       unfinished_tasks |-> event_queue.unfinished_tasks + 1]
    /\ UNCHANGED <<rvars, svars, processing, handled, commits, workers, pool, evars>>

-----------------------------------------------------------------------------
(* CommitWorker.run and CommitWorkerPool                                   *)

\* CommitWorkerPool(): no worker created, no call in progress; stopped counts
\* the workers the stop in progress has called stop() on, waiter is the
\* position of the caller of wait_for_completion
NewPool == [pc |-> "new", stopped |-> 0, waiter |-> "idle"]

\* CommitWorker(): running is False; its run() is submitted to the executor
\* and has not begun
NewWorker(worker_id) ==
    [worker_id |-> worker_id, running |-> FALSE, pc |-> "submitted"]

\* a start that leaves every worker the default worker_id of the constructor
PoolStartStepDefaultId ==
    /\ pool.pc \in {"new", "starting"}
    /\ Len(workers) < NumWorkers
    /\ workers' = Append(workers, NewWorker(0))
    /\ pool' = [pool EXCEPT !.pc = IF Len(workers) + 1 = NumWorkers
                                   THEN "started" ELSE "starting"]
    /\ UNCHANGED <<rvars, svars, event_queue, processing, handled, commits, evars>>

\* one iteration of the loop of CommitWorkerPool.start: a worker is created,
\* appended to self.workers and its run submitted; start returns after the
\* last one
PoolStartStep ==
    /\ pool.pc \in {"new", "starting"}
    /\ Len(workers) < NumWorkers
    /\ workers' = Append(workers, NewWorker(Len(workers)))
    /\ pool' = [pool EXCEPT !.pc = IF Len(workers) + 1 = NumWorkers
                                   THEN "started" ELSE "starting"]
    /\ UNCHANGED <<rvars, svars, event_queue, processing, handled, commits, evars>>

\* the executor's thread begins run(): self.start() sets running
WorkerBegin(i) ==
    /\ i \in DOMAIN workers
    /\ workers[i].pc = "submitted"
    /\ workers' = [workers EXCEPT ![i].pc = "loop", ![i].running = TRUE]
    /\ UNCHANGED <<rvars, svars, event_queue, processing, handled, commits, pool, evars>>

\* an iteration of the loop of run(): running is set, the body is a sleep
WorkerSleep(i) ==
    /\ i \in DOMAIN workers
    /\ workers[i].pc = "loop"
    /\ workers[i].running
    /\ UNCHANGED vars

\* the loop test of run() finds running cleared: run() returns
WorkerExit(i) ==
    /\ i \in DOMAIN workers
    /\ workers[i].pc = "loop"
    /\ ~workers[i].running
    /\ workers' = [workers EXCEPT ![i].pc = "exited"]
    /\ UNCHANGED <<rvars, svars, event_queue, processing, handled, commits, pool, evars>>

\* CommitWorkerPool.stop() is called after start() has returned
PoolStopCall ==
    /\ pool.pc = "started"
    /\ pool' = [pool EXCEPT !.pc = "stopping", !.stopped = 0]
    /\ UNCHANGED <<rvars, svars, event_queue, processing, handled, commits, workers, evars>>

\* one iteration of the loop of stop(): worker.stop() clears running
PoolStopStep ==
    /\ pool.pc = "stopping"
    /\ pool.stopped < Len(workers)
    /\ workers' = [workers EXCEPT ![pool.stopped + 1].running = FALSE]
    /\ pool' = [pool EXCEPT !.stopped = pool.stopped + 1]
    /\ UNCHANGED <<rvars, svars, event_queue, processing, handled, commits, evars>>

\* executor.shutdown(wait=True) returns once every submitted run() has
\* returned, and stop() returns
PoolShutdown ==
    /\ pool.pc = "stopping"
    /\ pool.stopped = Len(workers)
    /\ \A i \in DOMAIN workers : workers[i].pc = "exited"
    /\ pool' = [pool EXCEPT !.pc = "stopped"]
    /\ UNCHANGED <<rvars, svars, event_queue, processing, handled, commits, workers, evars>>

\* CommitWorkerPool.wait_for_completion() is called: event_queue.join() begins
WaitForCompletionCall ==
    /\ pool.waiter = "idle"
    /\ pool' = [pool EXCEPT !.waiter = "waiting"]
    /\ UNCHANGED <<rvars, svars, event_queue, processing, handled, commits, workers, evars>>

\* Queue.join() returns when unfinished_tasks is zero, and
\* wait_for_completion returns
WaitForCompletionReturn ==
    /\ pool.waiter = "waiting"
    /\ event_queue.unfinished_tasks = 0
    /\ pool' = [pool EXCEPT !.waiter = "idle"]
    /\ UNCHANGED <<rvars, svars, event_queue, processing, handled, commits, workers, evars>>

-----------------------------------------------------------------------------
(* ConfigurationManager called by several threads                          *)

\* a thread that is in neither _parse_config_file nor add_pattern
Idle == [op |-> "none", config_path |-> <<>>, patterns |-> <<>>]
NoCalls == [t \in Threads |-> Idle]

\* _parse_config_file of a get_file_action, up to the end of the for loop: the
\* path is not in the cache, and the file is read into the local list patterns
ParseRead(t, config_path) ==
    /\ calls[t] = Idle
    /\ config_path \in DOMAIN files
    /\ config_path \notin DOMAIN cache
    /\ calls' = [calls EXCEPT ![t] =
                   [op |-> "parse", config_path |-> config_path,
                    patterns |-> ReadPatterns(files[config_path])]]
    /\ UNCHANGED <<rvars, svars, wvars, storage, read_errors>>

\* self._config_cache[config_path] = patterns, and the return
ParseStore(t) ==
    /\ calls[t].op = "parse"
    /\ cache' = Put(cache, calls[t].config_path, calls[t].patterns)
    /\ calls' = [calls EXCEPT ![t] = Idle]
    /\ UNCHANGED <<files, appends, ret, svars, wvars, storage, read_errors>>

\* add_pattern up to the end of the write: the check of the existing patterns,
\* which parses the file when it exists, and the append
AddPatternWrite(t, pattern, action) ==
    LET config_file == ConfigPath(WatchDirectory, action)
        exists == config_file \in DOMAIN files
        known == exists /\ pattern \in Range(ParseConfigFile(config_file, files, cache))
        old == IF exists THEN files[config_file] ELSE <<>>
    IN  /\ calls[t] = Idle
        /\ ~known
        /\ appends < MaxAppends
        /\ files' = Put(files, config_file, old \o Line(pattern))
        /\ cache' = IF exists THEN CacheAfterParse(config_file, files, cache)
                    ELSE cache
        /\ appends' = appends + 1
        /\ calls' = [calls EXCEPT ![t] =
                       [op |-> "add_pattern", config_path |-> config_file,
                        patterns |-> <<>>]]
        /\ UNCHANGED <<ret, svars, wvars, storage, read_errors>>

\* del self._config_cache[config_file] when the entry is there, and the return
AddPatternInvalidate(t) ==
    /\ calls[t].op = "add_pattern"
    /\ cache' = Del(cache, calls[t].config_path)
    /\ calls' = [calls EXCEPT ![t] = Idle]
    /\ UNCHANGED <<files, appends, ret, svars, wvars, storage, read_errors>>

-----------------------------------------------------------------------------
(* Specifications                                                          *)

Init ==
    /\ files \in InitialFiles
    /\ cache = EmptyMap
    /\ appends = 0
    /\ ret = NoCall
    /\ rows = EmptyMap
    /\ seq = 0
    /\ writer = NoThread
    /\ txn = [t \in Threads |-> NoTxn]
    /\ result = NoResult
    /\ added = <<>>
    /\ event_queue = EmptyQueue
    /\ processing = EmptyMap
    /\ handled = NoHandled
    /\ commits = <<>>
    /\ workers = <<>>
    /\ pool = NewPool
    /\ storage = ReadyStorage
    /\ read_errors = EmptyMap
    /\ calls = NoCalls

\* the rule resolver, called on the paths of change events
Next ==
    \/ \E file_path \in EventPaths : Classify(file_path)
    \/ ClearCache
    \/ \E pattern \in {PatStarP}, action \in {"include", "ignore", "review"},
          scope \in {"global", "project"},
          project_path \in {NoProjectPath, <<NameW, NameS, FileAP>>, DirW} :
          AddPattern(pattern, action, scope, project_path)

Spec == Init /\ [][Next]_vars

\* the store, called by the worker threads and the review UI
NextStore ==
    \/ \E t \in Threads, file_path \in StorePaths : AddItemExec(t, file_path)
    \/ \E t \in Threads, item_id \in 1..MaxId, status \in StatusArgs :
          UpdateItemStatusExec(t, item_id, status)
    \/ \E t \in Threads, item_id \in 1..MaxId : RemoveItemExec(t, item_id)
    \/ \E t \in Threads : ClearCompletedExec(t)
    \/ \E t \in Threads : Commit(t)

InitStore ==
    /\ Init
    /\ files = EmptyMap

SpecStore == InitStore /\ [][NextStore]_vars

\* file_path values of the threads that add pairwise distinct paths
DistinctPaths == {"/test/file0.py", "/test/file1.py", "/test/file2.py",
                  "/test/file3.py"}

\* the paths add_item has been called with
PathsAdded ==
    {rows[i].file_path : i \in DOMAIN rows}
        \cup {txn[t].path : t \in {u \in Threads : txn[u].op = "add_item"}}

\* several threads call add_item, never twice on the same path
NextAdds ==
    \/ \E t \in Threads, file_path \in DistinctPaths \ PathsAdded :
          AddItemExec(t, file_path)
    \/ \E t \in Threads : Commit(t)

SpecAdds == InitStore /\ [][NextAdds]_vars

\* a pattern given with a blank before it
PatPadded == <<" ">> \o PatStarP

\* the rule files of the watch directory before add_pattern is called: none,
\* or one file of one line, which in one case has no newline at its end
PatternFiles ==
    {EmptyMap,
     ConfigPath(DirW, "include") :> Line(PatStarP),
     ConfigPath(DirW, "include") :> PatAStar,
     ConfigPath(DirW, "ignore") :> Line(PatStarL)}

InitAddPattern ==
    /\ files \in PatternFiles
    /\ cache = EmptyMap
    /\ appends = 0
    /\ ret = NoCall
    /\ rows = EmptyMap
    /\ seq = 0
    /\ writer = NoThread
    /\ txn = [t \in Threads |-> NoTxn]
    /\ result = NoResult
    /\ added = <<>>
    /\ event_queue = EmptyQueue
    /\ processing = EmptyMap
    /\ handled = NoHandled
    /\ commits = <<>>
    /\ workers = <<>>
    /\ pool = NewPool
    /\ storage = ReadyStorage
    /\ read_errors = EmptyMap
    /\ calls = NoCalls

\* add_pattern called by the review UI with a decision's pattern, scope and
\* project path, between classifications
NextAddPattern ==
    \/ \E pattern \in {PatStarP, PatPadded},
          action \in {"include", "ignore", "review"},
          scope \in {"global", "project"},
          project_path \in {NoProjectPath, DirW, DirWS, <<NameW, FileAP>>} :
          AddPattern(pattern, action, scope, project_path)
    \/ \E file_path \in {<<NameW, FileAP>>, <<NameW, NameS, FileAP>>} :
          Classify(file_path)
    \/ ClearCache

SpecAddPattern == InitAddPattern /\ [][NextAddPattern]_vars

\* bound of the model: the lines a failing read yields before its error
MaxLinesRead == 1

\* rule files of the watch directory, of one and of two patterns
FaultyFiles ==
    {Put(Put(EmptyMap, ConfigPath(DirW, "include"), inc),
         ConfigPath(DirW, "ignore"), ign) :
        inc \in {Line(PatStarP), Line(PatDirS) \o Line(PatStarL)},
        ign \in {Line(PatStarL) \o Line(PatStarP), Line(PatAStar)}}
      \cup {ConfigPath(DirW, "ignore") :> (Line(PatStarL) \o Line(PatStarP)),
            ConfigPath(DirW, "include") :> Line(PatStarP)}

\* the reads that fail: some of the rule files, each before its first line
\* or after some and not all of its lines
ReadErrors(fs) ==
    UNION {{e \in [failing -> 0..MaxLinesRead] :
               \A c \in failing : e[c] < Len(SplitLines(fs[c], <<>>))} :
           failing \in SUBSET DOMAIN fs}

InitFaultyRules ==
    /\ files \in FaultyFiles
    /\ cache = EmptyMap
    /\ appends = 0
    /\ ret = NoCall
    /\ rows = EmptyMap
    /\ seq = 0
    /\ writer = NoThread
    /\ txn = [t \in Threads |-> NoTxn]
    /\ result = NoResult
    /\ added = <<>>
    /\ event_queue = EmptyQueue
    /\ processing = EmptyMap
    /\ handled = NoHandled
    /\ commits = <<>>
    /\ workers = <<>>
    /\ pool = NewPool
    /\ storage = ReadyStorage
    /\ read_errors \in ReadErrors(files)
    /\ calls = NoCalls

\* get_file_action while reads of rule files fail
NextFaultyRules ==
    \/ \E file_path \in RegularFiles : Classify(file_path)
    \/ ClearCache

SpecFaultyRules == InitFaultyRules /\ [][NextFaultyRules]_vars

\* the threads of the store under storage failures
FaultyThreads == {"w1", "ui"}

InitFaultyStore ==
    /\ files = EmptyMap
    /\ cache = EmptyMap
    /\ appends = 0
    /\ ret = NoCall
    /\ rows = EmptyMap
    /\ seq = 0
    /\ writer = NoThread
    /\ txn = [t \in Threads |-> NoTxn]
    /\ result = NoResult
    /\ added = <<>>
    /\ event_queue = EmptyQueue
    /\ processing = EmptyMap
    /\ handled = NoHandled
    /\ commits = <<>>
    /\ workers = <<>>
    /\ pool = NewPool
    /\ storage \in {NoStorage(available) : available \in BOOLEAN}
    /\ read_errors = EmptyMap
    /\ calls = NoCalls

\* the store constructed and then called on a database location that fails
\* and recovers
NextFaultyStore ==
    \/ Construct
    \/ StorageChange
    \/ \E t \in FaultyThreads, file_path \in StorePaths : AddItemExec(t, file_path)
    \/ \E t \in FaultyThreads, item_id \in 1..MaxId, status \in {"approved"} :
          UpdateItemStatusExec(t, item_id, status)
    \/ \E t \in FaultyThreads, item_id \in 1..MaxId : RemoveItemExec(t, item_id)
    \/ \E t \in FaultyThreads : Commit(t)
    \/ \E t \in FaultyThreads, op \in StoreOps : ConnectFails(t, op)
    \/ \E t \in FaultyThreads : CommitFails(t)

SpecFaultyStore == InitFaultyStore /\ [][NextFaultyStore]_vars

\* rule files of the watch directory and of its subdirectory, each absent or
\* holding one extension glob
HierarchySlots == <<ConfigPath(DirW, "include"), ConfigPath(DirW, "ignore"),
                    ConfigPath(DirWS, "include"), ConfigPath(DirWS, "ignore")>>

RECURSIVE HierarchyFiles(_)
HierarchyFiles(slots) ==
    IF slots = <<>> THEN {EmptyMap}
    ELSE LET rest == HierarchyFiles(Tail(slots))
         IN  rest \cup {Put(f, Head(slots), Line(pattern)) :
                           f \in rest, pattern \in {PatStarP, PatStarL}}

\* the files classified: two in the watch directory, three one level down
HierarchyPaths == {<<NameW, FileAP>>, <<NameW, FileBL>>,
                   <<NameW, NameS, FileAP>>, <<NameW, NameS, FileBL>>,
                   <<NameW, NameS, FileCT>>}

InitHierarchy ==
    /\ files \in HierarchyFiles(HierarchySlots)
    /\ cache = EmptyMap
    /\ appends = 0
    /\ ret = NoCall
    /\ rows = EmptyMap
    /\ seq = 0
    /\ writer = NoThread
    /\ txn = [t \in Threads |-> NoTxn]
    /\ result = NoResult
    /\ added = <<>>
    /\ event_queue = EmptyQueue
    /\ processing = EmptyMap
    /\ handled = NoHandled
    /\ commits = <<>>
    /\ workers = <<>>
    /\ pool = NewPool
    /\ storage = ReadyStorage
    /\ read_errors = EmptyMap
    /\ calls = NoCalls

\* the events of a directory carry the directory's path
NextHierarchy ==
    \/ \E file_path \in HierarchyPaths : Classify(file_path)
    \/ Classify(DirWS)
    \/ ClearCache

SpecHierarchy == InitHierarchy /\ [][NextHierarchy]_vars

\* the threads that call the ConfigurationManager: a worker and the review UI
CacheThreads == {"w1", "ui"}

\* get_file_action on the workers' threads parses the rule files of the watch
\* directory while the review UI adds patterns to them
NextCacheRace ==
    \/ \E t \in CacheThreads, kind \in Kinds :
          ParseRead(t, ConfigPath(WatchDirectory, kind))
    \/ \E t \in CacheThreads : ParseStore(t)
    \/ \E t \in CacheThreads, pattern \in {PatStarP, PatStarL}, action \in Kinds :
          AddPatternWrite(t, pattern, action)
    \/ \E t \in CacheThreads : AddPatternInvalidate(t)

SpecCacheRace == InitAddPattern /\ [][NextCacheRace]_vars

\* the rule files of the watch directory, of which .gitinclude may be unreadable
CacheUseSlots == {ConfigPath(WatchDirectory, kind) : kind \in Kinds}

InitCacheUse ==
    /\ files \in {[slot \in {ConfigPath(WatchDirectory, "ignore")} |-> Line(PatStarL)],
                  [slot \in CacheUseSlots |-> Line(PatStarP)]}
    /\ cache = EmptyMap
    /\ appends = 0
    /\ ret = NoCall
    /\ rows = EmptyMap
    /\ seq = 0
    /\ writer = NoThread
    /\ txn = [t \in Threads |-> NoTxn]
    /\ result = NoResult
    /\ added = <<>>
    /\ event_queue = EmptyQueue
    /\ processing = EmptyMap
    /\ handled = NoHandled
    /\ commits = <<>>
    /\ workers = <<>>
    /\ pool = NewPool
    /\ storage = ReadyStorage
    /\ read_errors \in {EmptyMap,
                        [slot \in {ConfigPath(WatchDirectory, "include")} |-> 0]}
    /\ calls = NoCalls

\* classifications, cache clearing and add_pattern while rule files are also
\* edited from outside
NextCacheUse ==
    \/ \E file_path \in {<<NameW, FileAP>>, <<NameW, FileBL>>} : Classify(file_path)
    \/ ClearCache
    \/ \E pattern \in {PatStarP, PatStarL}, action \in Kinds :
          AddPattern(pattern, action, "global", NoProjectPath)
    \/ \E config_path \in CacheUseSlots, text \in {Line(PatStarP), Line(PatStarL)} :
          ExternalWrite(config_path, text)

SpecCacheUse == InitCacheUse /\ [][NextCacheUse]_vars

\* the rows review_queue.db holds when the program starts
InitialRows ==
    {EmptyMap, 1 :> [file_path |-> <<NameW, FileBL>>, status |-> "pending"]}

\* the rule files of the watch directory, each absent or with one of its
\* contents
WorkerFiles ==
    FileSystems(<<ConfigPath(DirW, "include"), ConfigPath(DirW, "ignore")>>)

InitWorker ==
    /\ files \in WorkerFiles
    /\ cache = EmptyMap
    /\ appends = 0
    /\ ret = NoCall
    /\ rows \in InitialRows
    /\ seq = Cardinality(DOMAIN rows)
    /\ writer = NoThread
    /\ txn = [t \in Threads |-> NoTxn]
    /\ result = NoResult
    /\ added = <<>>
    /\ event_queue = EmptyQueue
    /\ processing = EmptyMap
    /\ handled = NoHandled
    /\ commits = <<>>
    /\ workers = <<>>
    /\ pool = NewPool
    /\ storage = ReadyStorage
    /\ read_errors = EmptyMap
    /\ calls = NoCalls

\* process_event called on the workers, as the integration tests call it,
\* while events are put on the queue
NextWorker ==
    \/ \E w \in WorkerIds, file_path \in WorkerPaths : ProcessEventCall(w, file_path)
    \/ \E w \in WorkerIds : ProcessEventReturn(w)
    \/ \E file_path \in WorkerPaths : PutEvent(file_path)

SpecWorker == InitWorker /\ [][NextWorker]_vars

\* the pool's caller, the executor's threads and the producer of events
NextPool ==
    \/ PoolStartStep
    \/ \E i \in 1..NumWorkers : WorkerBegin(i)
    \/ \E i \in 1..NumWorkers : WorkerSleep(i)
    \/ \E i \in 1..NumWorkers : WorkerExit(i)
    \/ PoolStopCall
    \/ PoolStopStep
    \/ PoolShutdown
    \/ WaitForCompletionCall
    \/ WaitForCompletionReturn
    \/ \E file_path \in WorkerPaths : PutEvent(file_path)

InitPool ==
    /\ Init
    /\ files = EmptyMap

\* every thread that can take a step of its code eventually takes it: the
\* executor's threads, and the caller inside start() and inside stop(); when
\* stop() and wait_for_completion() are called and when events are put is up
\* to the environment
FairPool ==
    /\ \A i \in 1..NumWorkers : WF_vars(WorkerBegin(i)) /\ WF_vars(WorkerExit(i))
    /\ WF_vars(PoolStartStep)
    /\ WF_vars(PoolStopStep)
    /\ WF_vars(PoolShutdown)
    /\ WF_vars(WaitForCompletionReturn)

SpecPool == InitPool /\ [][NextPool]_vars /\ FairPool

-----------------------------------------------------------------------------
(* Properties of get_file_action                                           *)

\* the directories from the watch directory down to the parent of a path
ChainDirs(p) ==
    {d \in Directories : IsRelativeTo(d, WatchDirectory) /\ IsRelativeTo(Parent(p), d)}

\* some pattern of a rule file of this kind on the chain matches the path
PatternMatches(p, kind) ==
    \E d \in ChainDirs(p) :
        /\ ConfigPath(d, kind) \in DOMAIN files
        /\ \E pat \in Range(ReadPatterns(files[ConfigPath(d, kind)])) :
              MatchesPattern(p, pat, d)

\* the last call was get_file_action on the path of a file (existing or
\* deleted) below the watch directory
ClassifiedFile ==
    /\ ret.op = "get_file_action"
    /\ IsRelativeTo(Parent(ret.path), WatchDirectory)
    /\ ~IsDir(ret.path)

\* C1: a file under the watched root that only Ignore patterns match is
\* classified ignore, and one that only Include patterns match is classified
\* include.
C1_OnlyOneKindDecides ==
    ClassifiedFile =>
        /\ (PatternMatches(ret.path, "ignore") /\ ~PatternMatches(ret.path, "include"))
              => ret.val = "ignore"
        /\ (PatternMatches(ret.path, "include") /\ ~PatternMatches(ret.path, "ignore"))
              => ret.val = "include"

C1_Witness ==
    /\ ClassifiedFile
    /\ ret.path = <<NameW, NameS, FileBL>>
    /\ PatternMatches(ret.path, "ignore")
    /\ ~PatternMatches(ret.path, "include")
    /\ ConfigPath(DirW, "ignore") \in DOMAIN cache
    /\ ret.val = "ignore"

C3_NeverIncludeUndeclared ==
    (ret.op = "get_file_action" /\ ~IsDir(ret.path)) =>
        /\ ret.val = "include" => PatternMatches(ret.path, "include")
        /\ (~PatternMatches(ret.path, "include") /\ ~PatternMatches(ret.path, "ignore"))
              => ret.val = "review"

\* rule files exist on the chain and none of their patterns matches
C3_Witness ==
    /\ ClassifiedFile
    /\ ret.path = <<NameW, NameS, FileCT>>
    /\ ConfigPath(DirW, "include") \in DOMAIN files
    /\ ConfigPath(DirW, "ignore") \in DOMAIN files
    /\ ~PatternMatches(ret.path, "include")
    /\ ~PatternMatches(ret.path, "ignore")
    /\ ret.val = "review"

\* C4: a path outside the watched root is classified review, whatever rule
\* files exist outside or inside the root.
C4_OutsideRootReview ==
    (ret.op = "get_file_action" /\ ~IsRelativeTo(ret.path, WatchDirectory))
        => ret.val = "review"

\* a rule file above the root holds a pattern that matches the outside path
C4_Witness ==
    /\ ret.op = "get_file_action"
    /\ ret.path = <<NameO, FileAP>>
    /\ ConfigPath(FsRoot, "include") \in DOMAIN files
    /\ ConfigPath(DirW, "ignore") \in DOMAIN files
    /\ MatchesPattern(ret.path, PatStar, FsRoot)
    /\ ret.val = "review"

-----------------------------------------------------------------------------
(* Properties of the ReviewQueue                                           *)

\* this step is the commit and return of thread t's call of op
Returns(t, op) == txn[t].op = op /\ txn'[t].op = "none"

\* the pending rows of a table with a given file_path
PendingFor(table, file_path) ==
    {i \in GetPendingItems(table) : table[i].file_path = file_path}

C6_DuplicateAddsNewEntry ==
    [][\A t \in Threads :
          (Returns(t, "add_item") /\ PendingFor(rows, txn[t].path) # {})
              => /\ result'.n \notin PendingFor(rows, txn[t].path)
                 /\ PendingFor(rows', txn[t].path) =
                        PendingFor(rows, txn[t].path) \cup {result'.n}]_vars

\* the two adds of the same path came from different threads
C6_Witness ==
    /\ result.op = "add_item"
    /\ result.thread = "w2"
    /\ rows = (1 :> [file_path |-> "/w/a.p", status |-> "pending"])
                 @@ (2 :> [file_path |-> "/w/a.p", status |-> "pending"])

\* no two pending rows have the same file_path
NoDuplicatePending(table) ==
    \A i, j \in GetPendingItems(table) :
        table[i].file_path = table[j].file_path => i = j

\* a step keeps every row it does not remove or update: a row goes away only
\* by the commit of a remove_item of its id or of a clear_completed, and
\* changes only by the commit of an update_item_status of its id
KeepsRows ==
    \A i \in DOMAIN rows :
        \/ i \in DOMAIN rows' /\ rows'[i] = rows[i]
        \/ \E t \in Threads :
              \/ Returns(t, "remove_item") /\ txn[t].id = i /\ i \notin DOMAIN rows'
              \/ /\ Returns(t, "clear_completed")
                 /\ rows[i].status \in CompletedStatuses
                 /\ i \notin DOMAIN rows'
              \/ /\ Returns(t, "update_item_status")
                 /\ txn[t].id = i
                 /\ i \in DOMAIN rows'
                 /\ rows'[i] = [rows[i] EXCEPT !.status = txn[t].status]

\* a returning add_item leaves its row in the table
AddIsStored ==
    \A t \in Threads :
        Returns(t, "add_item")
            => /\ result'.n \in DOMAIN rows'
               /\ rows'[result'.n].file_path = txn[t].path

C8_DistinctAdds ==
    (\A t \in Threads : txn[t].op = "none") =>
        /\ Cardinality(GetPendingItems(rows)) = Len(added)
        /\ Cardinality({rows[i].file_path : i \in GetPendingItems(rows)}) = Len(added)
        /\ \A k \in 1..Len(added) : added[k] > 0 /\ added[k] \in DOMAIN rows
        /\ \A k, m \in 1..Len(added) : added[k] = added[m] => k = m

\* two threads have added two paths and both calls have returned
C8_Witness ==
    /\ \A t \in Threads : txn[t].op = "none"
    /\ Len(added) = 2
    /\ result.thread = "w2"
    /\ \E i \in DOMAIN rows : rows[i].file_path = "/test/file3.py"
    /\ Cardinality(GetPendingItems(rows)) = 2

\* C9 as stated: once update_item_status has taken an item out of pending, no
\* step makes its status pending again, and every later update_item_status on
\* its id returns False and leaves the item as it is.
C9_StatusMonotonic ==
    [][\A i \in DOMAIN rows :
          rows[i].status # "pending"
              => /\ i \in DOMAIN rows' => rows'[i].status # "pending"
                 /\ \A t \in Threads :
                       (Returns(t, "update_item_status") /\ txn[t].id = i)
                           => (~result'.ok /\ rows'[i] = rows[i])]_vars

\* the values that are a status or a decision for the code or for the spec
KnownStatuses == {"pending", "approved", "rejected", "include", "ignore"}

\* C10 as stated, for the values that are neither 'include' nor 'ignore' nor a
\* status of the code: update_item_status returns False and leaves every row
\* unchanged.
C10_InvalidDecisionRejected ==
    [][\A t \in Threads :
          (Returns(t, "update_item_status") /\ txn[t].status \notin KnownStatuses)
              => (~result'.ok /\ rows' = rows)]_vars

\* C11: update_item_status on an id that is not in the table returns False
\* and leaves the table as it is: no row is created or modified.
C11_UnknownIdFails ==
    [][\A t \in Threads :
          (Returns(t, "update_item_status") /\ txn[t].id \notin DOMAIN rows)
              => (~result'.ok /\ rows' = rows /\ seq' = seq)]_vars

\* the call failed on an id that is absent while another row is stored
C11_Witness ==
    /\ result.op = "update_item_status"
    /\ ~result.ok
    /\ result.id = 2
    /\ DOMAIN rows = {1}
    /\ rows[1].status = "pending"

\* the rows whose status is a decision or a completed status
ResolvedItems(table) ==
    {i \in DOMAIN table :
        table[i].status \in {"include", "ignore", "approved", "rejected"}}

\* C12 as stated: when update_item_status(id, d) with d 'include' or 'ignore'
\* returns True on a pending item, the item is no longer pending, its status
\* is 'resolved', and every other row is unchanged.
C12_ResolvedWithDecision ==
    [][\A t \in Threads :
          ( /\ Returns(t, "update_item_status")
            /\ txn[t].status \in {"include", "ignore"}
            /\ txn[t].id \in GetPendingItems(rows)
            /\ result'.ok )
              => /\ txn[t].id \notin GetPendingItems(rows')
                 /\ rows'[txn[t].id].status = "resolved"
                 /\ \A i \in DOMAIN rows \ {txn[t].id} :
                        i \in DOMAIN rows' /\ rows'[i] = rows[i]]_vars

\* C13 as stated: clear_completed deletes every resolved row, returns the
\* number of rows it deleted and leaves every pending row unchanged;
\* afterwards no resolved row is left.
C13_ClearsEveryResolved ==
    [][\A t \in Threads :
          Returns(t, "clear_completed")
              => /\ ResolvedItems(rows') = {}
                 /\ result'.n = Cardinality(DOMAIN rows \ DOMAIN rows')
                 /\ result'.n = Cardinality(ResolvedItems(rows))
                 /\ \A i \in GetPendingItems(rows) :
                        i \in DOMAIN rows' /\ rows'[i] = rows[i]]_vars

\* C14: remove_item deletes the row of the id whatever its status and returns
\* True, after which get_item finds no row; on an id that is not in the table
\* it returns False and changes nothing; every other row is unchanged.
C14_RemoveDeletes ==
    [][\A t \in Threads :
          Returns(t, "remove_item")
              => /\ txn[t].id \in DOMAIN rows
                        => (result'.ok /\ GetItem(rows', txn[t].id) = {})
                 /\ txn[t].id \notin DOMAIN rows
                        => (~result'.ok /\ rows' = rows)
                 /\ \A i \in DOMAIN rows \ {txn[t].id} :
                        GetItem(rows', i) = {rows[i]}
                 /\ DOMAIN rows' \subseteq DOMAIN rows]_vars

\* a remove_item has deleted row 1 and left the completed row 2 in place
C14_Witness ==
    /\ result.op = "remove_item"
    /\ result.ok
    /\ result.id = 1
    /\ GetItem(rows, 1) = {}
    /\ GetItem(rows, 2) = {[file_path |-> "/w/s/b.l", status |-> "approved"]}

-----------------------------------------------------------------------------
(* Properties of the workers and the pool                                  *)

\* this step is the return of worker w's process_event
ProcessEventReturns(w) == w \in DOMAIN processing /\ w \notin DOMAIN processing'

\* C15 as stated: when process_event handles an event whose path is
\* classified review, it returns True and afterwards the table holds exactly
\* one new row, pending, for that path.
C15_ReviewIsStored ==
    [][\A w \in WorkerIds :
          (ProcessEventReturns(w) /\ handled'.action = "review")
              => /\ handled'.ok
                 /\ \E i \in DOMAIN rows' \ DOMAIN rows :
                       /\ DOMAIN rows' = DOMAIN rows \cup {i}
                       /\ rows'[i] = [file_path |-> processing[w],
                                      status |-> "pending"]]_vars

\* C16 as stated: when process_event handles an event whose path is
\* classified include, the path is handed to the git_repo collaborator.
C16_IncludeIsCommitted ==
    [][\A w \in WorkerIds :
          (ProcessEventReturns(w) /\ handled'.action = "include")
              => commits' = Append(commits, processing[w])]_vars

\* C17: an event classified ignore or review hands nothing to the git_repo
\* collaborator, and an event classified ignore or include leaves the table
\* of the review queue as it is.
C17_RoutingFrame ==
    [][\A w \in WorkerIds :
          ProcessEventReturns(w)
              => /\ handled'.action \in {"ignore", "review"} => commits' = commits
                 /\ handled'.action \in {"ignore", "include"}
                        => (rows' = rows /\ seq' = seq)]_vars

\* an event classified ignore was handled while the table held a row
C17_Witness ==
    /\ handled.action = "ignore"
    /\ handled.ok
    /\ handled.path = <<NameW, NameS, FileBL>>
    /\ ConfigPath(DirW, "ignore") \in DOMAIN cache
    /\ DOMAIN rows = {1}
    /\ commits = <<>>

\* C18 as stated: when handling an event of the queue raises an error,
\* process_event catches it and the event is still marked done on the queue.
C18_ErrorStillAcknowledged ==
    [][\A w \in WorkerIds :
          ( /\ ProcessEventReturns(w)
            /\ ~handled'.ok
            /\ processing[w] \in Range(event_queue.queue) )
              => event_queue'.unfinished_tasks
                     = event_queue.unfinished_tasks - 1]_vars

\* start() has returned and stop() has not been called
PoolRunning == pool.pc = "started"

\* C19 as stated: while the pool is started and not stopped, every event put
\* on the queue is eventually taken off it by a worker and marked done: a
\* queue that holds events becomes empty with no unfinished task, unless the
\* pool is stopped.
C19_EventsDrained ==
    (PoolRunning /\ event_queue.queue # <<>>)
        ~> (~PoolRunning \/ ( /\ event_queue.queue = <<>>
                              /\ event_queue.unfinished_tasks = 0 ))

\* C20 as stated: under every interleaving of the workers' threads with
\* start() and stop(), a stop() that was called returns, and when it has
\* returned every worker has left its loop and is not running.
C20_StopTerminates ==
    /\ (pool.pc = "stopping") ~> (pool.pc = "stopped")
    /\ [](pool.pc = "stopped"
            => \A i \in DOMAIN workers :
                  workers[i].pc = "exited" /\ ~workers[i].running)

\* C21: once start() has returned the pool holds exactly num_workers workers,
\* each with its run() submitted (waiting to begin, looping, or returned), and
\* their worker_id are pairwise distinct.
C21_StartMakesNWorkers ==
    pool.pc \in {"started", "stopping", "stopped"}
        => /\ Len(workers) = NumWorkers
           /\ \A i \in DOMAIN workers :
                 workers[i].pc \in {"submitted", "loop", "exited"}
           /\ \A i, j \in DOMAIN workers :
                 workers[i].worker_id = workers[j].worker_id => i = j

\* start() has just returned: one run() has begun, the other has not yet
C21_Witness ==
    /\ pool.pc = "started"
    /\ Len(workers) = NumWorkers
    /\ workers[1].pc = "loop" /\ workers[1].running
    /\ workers[2].pc = "submitted"
    /\ workers[1].worker_id = 0 /\ workers[2].worker_id = 1

\* C22 as stated: a wait_for_completion() called on a started pool returns,
\* unless the pool is stopped meanwhile, and when it returns the queue has no
\* unfinished task.
C22_WaitReturns ==
    /\ (pool.waiter = "waiting" /\ PoolRunning)
          ~> (pool.waiter = "idle" \/ ~PoolRunning)
    /\ [][(pool.waiter = "waiting" /\ pool'.waiter = "idle")
            => event_queue'.unfinished_tasks = 0]_vars

-----------------------------------------------------------------------------
(* Properties of add_pattern                                               *)

\* C26: add_pattern with the action review returns False and changes no rule
\* file and no cache entry.
C26_ReviewPatternRefused ==
    [][(ret'.op = "add_pattern" /\ ret'.action = "review")
          => (ret'.val = "false" /\ files' = files /\ cache' = cache
              /\ appends' = appends)]_vars

\* add_pattern was refused while a rule file was on disk and in the cache
C26_Witness ==
    /\ ret.op = "add_pattern"
    /\ ret.action = "review"
    /\ ret.scope = "project"
    /\ ret.val = "false"
    /\ ConfigPath(DirW, "include") \in DOMAIN cache
    /\ DOMAIN files = {ConfigPath(DirW, "include")}

\* no pattern occurs twice in a sequence of patterns
NoDuplicates(patterns) ==
    \A i, j \in 1..Len(patterns) : patterns[i] = patterns[j] => i = j

\* C27 as stated: add_pattern does not append a pattern the rule file holds
\* already, so every rule file, having started without duplicates, holds each
\* pattern at most once after any sequence of add_pattern calls.
C27_NoDuplicatePatterns ==
    \A config_file \in DOMAIN files :
        NoDuplicates(ReadPatterns(files[config_file]))

\* C28 as stated: after add_pattern("*.p", include, project, dir) has
\* succeeded for a directory dir of the watched tree, get_file_action on a
\* *.p file under dir that no ignore pattern matches returns include.
C28_AddThenClassifyIncludes ==
    [][( /\ ret.op = "add_pattern" /\ ret.val = "true"
         /\ ret.action = "include" /\ ret.scope = "project"
         /\ ret.path \in {DirW, DirWS}
         /\ ret'.op = "get_file_action"
         /\ IsRelativeTo(ret'.path, ret.path)
         /\ ~PatternMatches(ret'.path, "ignore") )
          => ret'.val = "include"]_vars

-----------------------------------------------------------------------------
(* Precedence between the levels of rule files                             *)

\* a pattern of the rule file of this kind in the directory d matches p
MatchesAt(p, d, kind) ==
    /\ ConfigPath(d, kind) \in DOMAIN files
    /\ \E pat \in Range(ReadPatterns(files[ConfigPath(d, kind)])) :
          MatchesPattern(p, pat, d)

\* an ignore pattern of the file's own directory matches it, and so does an
\* include pattern of a directory above it
DeeperIgnoreShallowerInclude(p) ==
    /\ MatchesAt(p, Parent(p), "ignore")
    /\ \E d \in ChainDirs(p) \ {Parent(p)} : MatchesAt(p, d, "include")

-----------------------------------------------------------------------------
(* Rule files whose read fails                                             *)

\* a pattern of a rule file of this kind on the chain, whose read does not
\* fail, matches the path
ReadableMatches(p, kind) ==
    \E d \in ChainDirs(p) :
        /\ ConfigPath(d, kind) \notin DOMAIN read_errors
        /\ MatchesAt(p, d, kind)

\* C29 as stated: a rule file whose read fails, before its first line or
\* part-way, contributes no pattern: get_file_action returns what the rule
\* files that can be read decide.
C29_FailedReadGivesNoPatterns ==
    (ret.op = "get_file_action" /\ ~IsDir(ret.path)) =>
        ret.val = IF ReadableMatches(ret.path, "include")
                     /\ ReadableMatches(ret.path, "ignore") THEN "review"
                  ELSE IF ReadableMatches(ret.path, "ignore") THEN "ignore"
                  ELSE IF ReadableMatches(ret.path, "include") THEN "include"
                  ELSE "review"

C25_FailureIsReturned ==
    [][(\E t \in FaultyThreads :
            (\E op \in StoreOps \ {"clear_completed"} : ConnectFails(t, op))
            \/ CommitFails(t))
          => (~result'.raised /\ rows' = rows)]_vars

\* some rule file of the kind in a directory at or above the file's directory
\* holds a pattern that the file's name matches
NameMatchedAbove(p, kind) ==
    \E d \in ChainDirs(p) :
        /\ ConfigPath(d, kind) \in DOMAIN files
        /\ \E pattern \in Range(ReadPatterns(files[ConfigPath(d, kind)])) :
              Fnmatch(p[Len(p)], pattern)

\* the rule tree of the scenario: *.l ignored at the root, *.p included one
\* level down
HierarchyScenario ==
    [slot \in {ConfigPath(DirW, "ignore"), ConfigPath(DirWS, "include")} |->
        IF slot = ConfigPath(DirW, "ignore") THEN Line(PatStarL)
        ELSE Line(PatStarP)]

C32_StatsCounts ==
    LET stats == GetStats(rows)
    IN  /\ {"total", "pending", "resolved"} \subseteq DOMAIN stats
        /\ stats["total"] = Cardinality(DOMAIN rows)
        /\ stats["pending"] = Cardinality(GetPendingItems(rows))
        /\ stats["resolved"] = Cardinality(DOMAIN rows \ GetPendingItems(rows))
        /\ stats["total"] = stats["pending"] + stats["resolved"]

\* the columns of review_items
TableColumns == {"id", "file_path", "event_type", "timestamp", "reason",
                 "status", "metadata", "created_at", "updated_at"}

\* C33 as stated: every stored item is pending or resolved; a pending item has
\* no decision and no resolution time, a resolved one has a decision, include
\* or ignore, kept in the item
C33_StatusDomain ==
    \A i \in DOMAIN rows :
        /\ rows[i].status \in {"pending", "resolved"}
        /\ rows[i].status = "resolved"
              => {"decision", "resolved_at"} \subseteq TableColumns

\* C34: the ids add_item has returned are pairwise distinct, also when rows
\* were deleted in between, and no step changes the id or the file_path of a
\* row that stays in the table
C34_IdsUniqueAndStable ==
    [][/\ \A i, j \in 1..Len(added') : i # j => added'[i] # added'[j]
       /\ \A i \in DOMAIN rows \cap DOMAIN rows' :
              rows'[i].file_path = rows[i].file_path]_vars

\* row 1 was deleted before the add that returned id 2 completed
C34_Witness ==
    /\ added = <<1, 2>>
    /\ DOMAIN rows = {2}
    /\ result.op = "add_item"
    /\ result.id = 2

\* the patterns a rule file holds on disk, none when the file is absent
PatternsOnDisk(config_file, fs) ==
    IF config_file \in DOMAIN fs THEN Range(ReadPatterns(fs[config_file])) ELSE {}

\* C35 as stated: after an add_pattern that returned True, the patterns parsed
\* from the rule file it targets contain the pattern (as a parsed line, that
\* is stripped) and every pattern the file held before the call, whatever the
\* file's content was
C35_AppendKeepsPatterns ==
    [][\A pattern \in {PatStarP, PatPadded}, action \in Kinds,
          scope \in {"global", "project"},
          project_path \in {NoProjectPath, DirW, DirWS, <<NameW, FileAP>>} :
          (AddPattern(pattern, action, scope, project_path) /\ ret'.val = "true")
              => LET config_file == ConfigPath(PatternDir(scope, project_path), action)
                 IN  /\ Strip(pattern) \in PatternsOnDisk(config_file, files')
                     /\ PatternsOnDisk(config_file, files)
                           \subseteq PatternsOnDisk(config_file, files')]_vars

\* C36 as stated: whatever the interleaving of the threads inside
\* _parse_config_file and add_pattern, once every call has returned each cache
\* entry is the parse of the current content of its rule file
C36_CacheCoherent ==
    (\A t \in Threads : calls[t] = Idle) =>
        \A config_path \in DOMAIN cache :
            /\ config_path \in DOMAIN files
            /\ cache[config_path] = ReadPatterns(files[config_path])

\* the rule files a step creates or changes
Written(before, after) ==
    {c \in DOMAIN after : c \notin DOMAIN before \/ after[c] # before[c]}

\* C37 as stated: every rule file add_pattern creates or appends to is in the
\* watch directory or in a directory below it, for both scopes and for every
\* project path inside the watched tree, the watch directory included
C37_WritesInsideWatchedTree ==
    [][\A config_file \in Written(files, files') :
          IsRelativeTo(ConfigDir(config_file), WatchDirectory)]_vars

\* the rule files that exist in the directories from the watch directory down
\* to dir
RuleFilesDownTo(dir, fs) ==
    {c \in DOMAIN fs : /\ ConfigType(c) \in Kinds
                       /\ IsRelativeTo(ConfigDir(c), WatchDirectory)
                       /\ IsRelativeTo(dir, ConfigDir(c))}

\* a list of rule files is exactly those down to dir, each once, a directory's
\* files after those of the directories above it
ConsultsChain(config_files, dir, fs) ==
    /\ Range(config_files) = RuleFilesDownTo(dir, fs)
    /\ Len(config_files) = Cardinality(RuleFilesDownTo(dir, fs))
    /\ \A i, j \in 1..Len(config_files) :
          i < j => Len(ConfigDir(config_files[i])) <= Len(ConfigDir(config_files[j]))

\* C38 as stated: for any path inside the watch directory get_file_action
\* consults exactly the rule files of the directories from the watch directory
\* down to the path's parent, root first
C38_ConsultsDownToParent ==
    [][\A file_path \in HierarchyPaths \cup {DirWS} :
          Classify(file_path)
              => /\ ConsultsChain(FindConfigFiles(file_path, files),
                                  Parent(file_path), files)
                 /\ DOMAIN cache' \ DOMAIN cache
                       \subseteq RuleFilesDownTo(Parent(file_path), files)]_vars

\* C38 as amended: for the path of a regular file get_file_action consults
\* exactly the rule files of the directories from the watch directory down to
\* the file's parent, root first; for a path that is not a regular file (a
\* directory, a deleted file) the chain goes down to the path itself, so a
\* directory's own rule files are consulted too
C38_ConsultsDownToStart ==
    [][\A file_path \in HierarchyPaths \cup {DirWS} :
          Classify(file_path)
              => LET current_dir == IF IsFile(file_path) THEN Parent(file_path)
                                    ELSE file_path
                 IN  /\ ConsultsChain(FindConfigFiles(file_path, files),
                                      current_dir, files)
                     /\ DOMAIN cache' \ DOMAIN cache
                           \subseteq RuleFilesDownTo(current_dir, files)]_vars

\* get_file_action on the subdirectory has parsed the subdirectory's own
\* .gitinclude
C38_Witness ==
    /\ ret.op = "get_file_action"
    /\ ret.path = DirWS
    /\ ConfigPath(DirWS, "include") \in DOMAIN cache
    /\ ConfigPath(DirW, "ignore") \in DOMAIN cache

\* the text of a rule file that holds the given patterns
RECURSIVE Unparse(_)
Unparse(patterns) ==
    IF patterns = <<>> THEN <<>>
    ELSE Line(Head(patterns)) \o Unparse(Tail(patterns))

\* the rule files as the ConfigurationManager sees them: the cached list for a
\* file that is in the cache, the file on disk otherwise
SeenFiles ==
    [config_path \in DOMAIN files |->
        IF config_path \in DOMAIN cache THEN Unparse(cache[config_path])
        ELSE files[config_path]]

\* C39: a cache entry stays as it is until clear_cache or an appending
\* add_pattern on its file removes it, and get_file_action decides by the cached
\* list, not by the file on disk; a parse that failed adds no entry; after
\* clear_cache get_stats reports no cached file
C39_CacheInvalidatedExplicitly ==
    [][/\ \A config_path \in DOMAIN cache :
             IF config_path \in DOMAIN cache'
             THEN cache'[config_path] = cache[config_path]
             ELSE \/ ClearCache
                  \/ /\ ret'.op = "add_pattern"
                     /\ config_path \in Written(files, files')
       /\ \A file_path \in {<<NameW, FileAP>>, <<NameW, FileBL>>} :
             Classify(file_path)
                 => ret'.val = GetFileAction(file_path, SeenFiles, EmptyMap)
       /\ \A config_path \in DOMAIN cache' \ DOMAIN cache :
             config_path \notin DOMAIN read_errors
       /\ ClearCache => /\ ConfigStats(cache').cached_config_files = 0
                        /\ ConfigStats(cache').cache_files = {}]_vars

\* a rule file was changed from outside after it was cached, and the last
\* get_file_action decided by the cached list
C39_Witness ==
    /\ ret.op = "get_file_action"
    /\ \E config_path \in DOMAIN cache :
          cache[config_path] # ReadPatterns(files[config_path])
    /\ ret.val = GetFileAction(ret.path, SeenFiles, EmptyMap)
    /\ ret.val # GetFileAction(ret.path, files, EmptyMap)

=============================================================================
